---- MODULE Spec2Model ----
(***************************************************************************)
(* Model of package future (src/future/future.go): the channelFuture       *)
(* operations Await, AwaitWithTimeout and Async, and the combinators Then,  *)
(* AllOf and AnyOf.  One call of a wait operation on one future is          *)
(* followed through every interleaving of the goroutines it starts and of   *)
(* the cancellation of the scopes involved.                                 *)
(*                                                                         *)
(* Goroutines: the caller; task 0, the goroutine Async starts for the       *)
(* awaited future; for a combinator, the body of its computation (run by    *)
(* task 0), one worker per input future (AllOf/AnyOf) and task i, the       *)
(* goroutine Async starts for input future i.                               *)
(***************************************************************************)
EXTENDS Integers, Sequences, FiniteSets, TLC

\* Largest number of input futures given to AllOf / AnyOf.
MaxFutures == 2
Tasks == 0..MaxFutures
Inputs == 1..MaxFutures

Kinds == {"plain", "then", "allof", "anyof"}
Modes == {"Await", "AwaitWithTimeout", "Async"}

VARIABLES
  kind,        \* how the awaited future was built: New, Then, AllOf, AnyOf
  mode,        \* the operation the caller invokes on it
  n,           \* number of input futures of the combinator
  fails,       \* the tasks whose computation (given to New) returns a failure
  mapFails,    \* Then: whether mapFn returns a failure
  sameScope,   \* the combinator was built with the scope the caller waits on
  ctx,         \* ctx[c]: created flag and Err() of context c
  callerPc,    \* caller: "start", "wait", "done"
  ret,         \* the Result the wait operation returned
  tpc,         \* tpc[t]: goroutine of Async: "idle", "check", "run", "done"
  handle,      \* handle[t]: buffer of the one-shot channel resultCh (cap 1)
  closes,      \* closes[t]: number of close(resultCh) executed
  sent,        \* sent[t]: number of sends executed on resultCh
  started,     \* started[t]: number of times cf.fn() was called by task t
  bpc,         \* body of the combinator's computation
  wpc,         \* wpc[i]: worker goroutine of AllOf / AnyOf for input i
  wres,        \* wres[i]: the Result worker i received from its rCh; wres[1]
               \* is also the Result Then got from f.Await (line 71)
  allCh,       \* AllOf: buffered index-tagged channel
  allClosed,   \* AllOf: close(resultCh) has run
  values,      \* AllOf: the values slice
  cnt,         \* AllOf: loop counter i
  berr,        \* AllOf: failure observed by the loop
  anyRes,      \* AnyOf: the Result received from the race channel
  winner,      \* AnyOf: the worker whose send succeeded (0: none)
  mapCalls,    \* Then: number of calls of mapFn
  panicked,    \* a goroutine panicked (send on closed channel)
  first,       \* the input computation that completed first (0: none yet)
  nrecv,       \* AllOf: number of receives of the loop
  firstRecv,   \* AllOf: index of the first Result the loop received
  timedOut,    \* AwaitWithTimeout took the timer branch
  doneAtCall,  \* the caller's scope was already cancelled when Async was called
  doneAtSend   \* the caller's scope was already cancelled when task 0 delivered

vars == <<kind, mode, n, fails, mapFails, sameScope, ctx, callerPc, ret, tpc,
          handle, closes, sent, started, bpc, wpc, wres, allCh, allClosed,
          values, cnt, berr, anyRes, winner, mapCalls, panicked, first, nrecv,
          firstRecv, timedOut, doneAtCall, doneAtSend>>

conf == <<kind, mode, n, fails, mapFails, sameScope>>
callerVars == <<callerPc, ret, timedOut, doneAtCall>>
bodyVars == <<bpc, allCh, allClosed, values, cnt, berr, anyRes, winner,
              mapCalls, nrecv, firstRecv>>
workerVars == <<wpc, wres>>

----------------------------------------------------------------------------
(* Results and contexts *)

\* Result[T, error]{Value, Error}
Result(v, e) == [Value |-> v, Error |-> e]

\* The zero value of the awaited future's T: nil slice for AllOf, 0 otherwise.
Zero(t) == IF t = 0 /\ kind = "allof" THEN <<>> ELSE 0

InCtx(i) == <<"in1", "in2", "in3", "in4">>[i]
Ctxs == {"scope", "cscope", "top", "child"} \cup {InCtx(i) : i \in Inputs}

\* The scope given to Then / AllOf / AnyOf when the future was built.
CScope == IF sameScope THEN "scope" ELSE "cscope"

\* context.WithCancel(parent): the context a derived context hangs on.
Parent(c) ==
  CASE c = "top" -> "scope"
    [] c = "child" -> CScope
    [] c \in {"scope", "cscope"} -> c
    [] OTHER -> IF kind \in {"then", "plain"} THEN CScope ELSE "child"

\* The context of the goroutine Async starts for task t.
CtxOf(t) == IF t = 0 THEN "top" ELSE InCtx(t)

IsRoot(c) == c \in {"scope", "cscope"}

RECURSIVE Under(_, _)
\* c is d or derived from d
Under(c, d) == c = d \/ (~IsRoot(c) /\ Under(Parent(c), d))

\* <-ctx.Done() is ready
Done(c) == ctx[c].err # "nil"

\* ctx, cancel := context.WithCancel(parent): a child of a cancelled parent
\* is cancelled at once with the parent's error.
WithCancel(cx, c) ==
  [cx EXCEPT ![c] = [created |-> TRUE, err |-> cx[Parent(c)].err]]

\* cancel(): cancels c and every context derived from it, once.
Cancel(cx, c) ==
  [d \in Ctxs |->
     IF cx[d].created /\ cx[d].err = "nil" /\ Under(d, c)
     THEN [created |-> TRUE, err |-> "Canceled"]
     ELSE cx[d]]

----------------------------------------------------------------------------
Init ==
  /\ kind \in Kinds
  /\ mode \in Modes
  /\ n \in IF kind = "plain" THEN {0}
           ELSE IF kind = "then" THEN {1} ELSE 0..MaxFutures
  /\ fails \in SUBSET (IF kind = "plain" THEN {0} ELSE 1..n)
  /\ mapFails \in BOOLEAN
  /\ kind # "then" => mapFails = FALSE
  /\ sameScope \in BOOLEAN
  /\ kind = "plain" => sameScope = TRUE
  /\ ctx = [c \in Ctxs |-> [created |-> IsRoot(c), err |-> "nil"]]
  /\ callerPc = "start"
  /\ ret = Result(Zero(0), "none")
  /\ tpc = [t \in Tasks |-> "idle"]
  /\ handle = [t \in Tasks |-> <<>>]
  /\ closes = [t \in Tasks |-> 0]
  /\ sent = [t \in Tasks |-> 0]
  /\ started = [t \in Tasks |-> 0]
  /\ bpc = "idle"
  /\ wpc = [i \in Inputs |-> "idle"]
  /\ wres = [i \in Inputs |-> Result(0, "none")]
  /\ allCh = <<>>
  /\ allClosed = FALSE
  /\ values = <<>>
  /\ cnt = 0
  /\ berr = "nil"
  /\ anyRes = Result(0, "none")
  /\ winner = 0
  /\ mapCalls = 0
  /\ panicked = FALSE
  /\ first = 0
  /\ nrecv = 0
  /\ firstRecv = 0
  /\ timedOut = FALSE
  /\ doneAtCall = FALSE
  /\ doneAtSend = FALSE

----------------------------------------------------------------------------
(* The scopes' owners *)

\* The owner of the scope passed to the wait operation cancels it.
CancelScope ==
  /\ ~panicked
  /\ ~Done("scope")
  /\ ctx' = Cancel(ctx, "scope")
  /\ UNCHANGED <<conf, callerVars, tpc, handle, closes, sent, started,
                 bodyVars, workerVars, panicked, first, doneAtSend>>

\* The owner of the scope the combinator was built with cancels it.
CancelCScope ==
  /\ ~panicked
  /\ ~sameScope
  /\ ~Done("cscope")
  /\ ctx' = Cancel(ctx, "cscope")
  /\ UNCHANGED <<conf, callerVars, tpc, handle, closes, sent, started,
                 bodyVars, workerVars, panicked, first, doneAtSend>>

----------------------------------------------------------------------------
(* channelFuture.Async, lines 44-60 *)

\* Lines 45-47 and the go statement: derive the context, make the channel,
\* start the goroutine.  Gives the new ctx and tpc.
AsyncCtx(t) == WithCancel(ctx, CtxOf(t))
AsyncTpc(t) == [tpc EXCEPT ![t] = "check"]

\* One channel kept by the future and shared by all its dispatches.
DeliverShared(h, t, r) == [h EXCEPT ![0] = Append(@, r)]

\* resultCh <- r on the channel of task t
Deliver(h, t, r) == [h EXCEPT ![t] = Append(@, r)]

\* Line 49: defer close(resultCh), run when the goroutine of task t returns
Closed(c, t) == [c EXCEPT ![t] = @ + 1]

\* The cancelled branch without leaving the select: the computation is run
\* as well.
TaskCancelledFallsThrough(t) ==
  /\ ~panicked
  /\ tpc[t] = "check"
  /\ Done(CtxOf(t))
  /\ handle' = Deliver(handle, t, Result(Zero(t), ctx[CtxOf(t)].err))
  /\ sent' = [sent EXCEPT ![t] = @ + 1]
  /\ tpc' = [tpc EXCEPT ![t] = "run"]
  /\ started' = [started EXCEPT ![t] = @ + 1]
  /\ bpc' = IF t = 0 /\ kind # "plain" THEN "start" ELSE bpc
  /\ doneAtSend' = IF t = 0 THEN Done("scope") ELSE doneAtSend
  /\ UNCHANGED <<conf, ctx, callerVars, closes, workerVars, allCh, allClosed,
                 values, cnt, berr, anyRes, winner, mapCalls, nrecv,
                 firstRecv, panicked, first>>

\* Lines 51-52 and 49: the derived context is already done: the computation
\* is not run, the cancellation is delivered and the channel closed.
TaskCancelled(t) ==
  /\ ~panicked
  /\ tpc[t] = "check"
  /\ Done(CtxOf(t))
  /\ handle' = Deliver(handle, t, Result(Zero(t), ctx[CtxOf(t)].err))
  /\ sent' = [sent EXCEPT ![t] = @ + 1]
  /\ closes' = Closed(closes, t)
  /\ tpc' = [tpc EXCEPT ![t] = "done"]
  /\ doneAtSend' = IF t = 0 THEN Done("scope") ELSE doneAtSend
  /\ UNCHANGED <<conf, ctx, callerVars, started, bodyVars,
                 workerVars, panicked, first>>

\* Line 53-54: default branch, cf.fn() is called.
TaskRun(t) ==
  /\ ~panicked
  /\ tpc[t] = "check"
  /\ ~Done(CtxOf(t))
  /\ tpc' = [tpc EXCEPT ![t] = "run"]
  /\ started' = [started EXCEPT ![t] = @ + 1]
  /\ bpc' = IF t = 0 /\ kind # "plain" THEN "start" ELSE bpc
  /\ UNCHANGED <<conf, ctx, callerVars, handle, closes, sent, workerVars,
                 allCh, allClosed, values, cnt, berr, anyRes, winner,
                 mapCalls, nrecv, firstRecv, panicked, first, doneAtSend>>

\* The computation of task t was given to New directly.
IsPlain(t) == t > 0 \/ kind = "plain"

\* The computation task t runs: every dispatch of a future made by New runs
\* that future's one computation.
Comp(t) == IF kind = "plain" THEN 0 ELSE t

\* value, err := cf.fn() for a computation given to New: the run by task t
\* returns the value t + 1 (a computation may return something else on every
\* call), with the error of its computation if that fails.
ErrOf(t) == <<"err0", "err1", "err2", "err3", "err4">>[t + 1]
Fn(t) ==
  [value |-> t + 1,
   err |-> IF Comp(t) \in fails THEN ErrOf(Comp(t)) ELSE "nil"]

\* A Result built without the error of the computation.
FnResultNoError(t) == Result(Fn(t).value, "nil")

\* Line 55: Result[T, error]{Value: value, Error: err}
FnResult(t) == Result(Fn(t).value, Fn(t).err)

\* Lines 54-55 and 49: a computation given to New returns, its Result is
\* sent and the deferred close(resultCh) runs.
TaskFn(t) ==
  /\ ~panicked
  /\ tpc[t] = "run"
  /\ IsPlain(t)
  /\ handle' = Deliver(handle, t, FnResult(t))
  /\ sent' = [sent EXCEPT ![t] = @ + 1]
  /\ closes' = Closed(closes, t)
  /\ first' = IF first = 0 /\ t > 0 THEN t ELSE first
  /\ tpc' = [tpc EXCEPT ![t] = "done"]
  /\ doneAtSend' = IF t = 0 THEN Done("scope") ELSE doneAtSend
  /\ UNCHANGED <<conf, ctx, callerVars, started, bodyVars,
                 workerVars, panicked>>

----------------------------------------------------------------------------
(* The caller: Await (25-28), AwaitWithTimeout (30-42), Async (44-60) *)

\* Line 26 / 31 / the caller's own call of Async.
Call ==
  /\ ~panicked
  /\ callerPc = "start"
  /\ ctx' = AsyncCtx(0)
  /\ tpc' = AsyncTpc(0)
  /\ callerPc' = "wait"
  /\ doneAtCall' = Done("scope")
  /\ UNCHANGED <<conf, ret, timedOut, handle, closes, sent, started,
                 bodyVars, workerVars, panicked, first, doneAtSend>>

\* return <-resultCh
Received(h) == Head(h)

\* Line 27: return <-resultCh
AwaitRecv ==
  /\ ~panicked
  /\ mode = "Await"
  /\ callerPc = "wait"
  /\ handle[0] # <<>>
  /\ ret' = Received(handle[0])
  /\ handle' = [handle EXCEPT ![0] = Tail(@)]
  /\ callerPc' = "done"
  /\ UNCHANGED <<conf, ctx, timedOut, doneAtCall, tpc, closes, sent, started,
                 bodyVars, workerVars, panicked, first, doneAtSend>>

\* Lines 34-35: case <-ctx.Done()
AwaitWithTimeoutCtxDone ==
  /\ ~panicked
  /\ mode = "AwaitWithTimeout"
  /\ callerPc = "wait"
  /\ Done("scope")
  /\ ret' = Result(Zero(0), ctx["scope"].err)
  /\ callerPc' = "done"
  /\ UNCHANGED <<conf, ctx, timedOut, doneAtCall, tpc, handle, closes, sent,
                 started, bodyVars, workerVars, panicked, first, doneAtSend>>

\* Lines 36-37: case result := <-resultCh
AwaitWithTimeoutRecv ==
  /\ ~panicked
  /\ mode = "AwaitWithTimeout"
  /\ callerPc = "wait"
  /\ handle[0] # <<>>
  /\ ret' = Received(handle[0])
  /\ handle' = [handle EXCEPT ![0] = Tail(@)]
  /\ callerPc' = "done"
  /\ UNCHANGED <<conf, ctx, timedOut, doneAtCall, tpc, closes, sent, started,
                 bodyVars, workerVars, panicked, first, doneAtSend>>

\* The timer branch reporting the context's error instead.
TimeoutResultCanceled == Result(Zero(0), "Canceled")

\* The Result of the timer branch, line 40.
TimeoutResult == Result(Zero(0), "DeadlineExceeded")

\* Lines 38-40: case <-time.After(timeout): the timer may have fired at any
\* moment the select is polled or parked.
AwaitWithTimeoutTimer ==
  /\ ~panicked
  /\ mode = "AwaitWithTimeout"
  /\ callerPc = "wait"
  /\ ctx' = Cancel(ctx, "top")
  /\ ret' = TimeoutResult
  /\ timedOut' = TRUE
  /\ callerPc' = "done"
  /\ UNCHANGED <<conf, doneAtCall, tpc, handle, closes, sent, started,
                 bodyVars, workerVars, panicked, first, doneAtSend>>

\* A caller of Async reads the handle (lines 196-197 of the example).
AsyncRecv ==
  /\ ~panicked
  /\ mode = "Async"
  /\ callerPc = "wait"
  /\ handle[0] # <<>>
  /\ ret' = Received(handle[0])
  /\ handle' = [handle EXCEPT ![0] = Tail(@)]
  /\ callerPc' = "done"
  /\ UNCHANGED <<conf, ctx, timedOut, doneAtCall, tpc, closes, sent, started,
                 bodyVars, workerVars, panicked, first, doneAtSend>>

\* A caller of Async invokes the cancel function Async returned.
AsyncCancel ==
  /\ ~panicked
  /\ mode = "Async"
  /\ callerPc # "start"
  /\ ~Done("top")
  /\ ctx' = Cancel(ctx, "top")
  /\ UNCHANGED <<conf, callerVars, tpc, handle, closes, sent, started,
                 bodyVars, workerVars, panicked, first, doneAtSend>>

\* Lines 44-60 once more: a further Await, AwaitWithTimeout or Async on the
\* same future made by New and the same scope, from any goroutine; k numbers
\* the dispatches after the first.
AsyncAgain(k) ==
  /\ ~panicked
  /\ kind = "plain"
  /\ callerPc # "start"
  /\ tpc[k] = "idle"
  /\ k > 1 => tpc[k - 1] # "idle"
  /\ ctx' = AsyncCtx(k)
  /\ tpc' = AsyncTpc(k)
  /\ UNCHANGED <<conf, callerVars, handle, closes, sent, started, bodyVars,
                 workerVars, panicked, first, doneAtSend>>

----------------------------------------------------------------------------
(* Then, lines 69-78 *)

\* fn func(T) (U, error): the function given to Then.
MapFn(v) == IF mapFails THEN Result(0, "errMap") ELSE Result(v + v, "nil")

\* Line 71, f.Await(ctx) up to its call of Async (line 26).
ThenAwait ==
  /\ ~panicked
  /\ kind = "then"
  /\ bpc = "start"
  /\ ctx' = AsyncCtx(1)
  /\ tpc' = AsyncTpc(1)
  /\ bpc' = "await"
  /\ UNCHANGED <<conf, callerVars, handle, closes, sent, started, workerVars,
                 allCh, allClosed, values, cnt, berr, anyRes, winner,
                 mapCalls, nrecv, firstRecv, panicked, first, doneAtSend>>

\* The failure passed on together with the source's value.
ThenResultKeepsValue(r) ==
  IF r.Error # "nil" THEN Result(r.Value, r.Error) ELSE MapFn(r.Value)

\* Lines 72-76: what the computation of Then returns for the source's Result.
ThenResult(r) ==
  IF r.Error # "nil" THEN Result(0, r.Error) ELSE MapFn(r.Value)

\* Line 27 inside f.Await, lines 72-76, and the send of line 55 by task 0.
ThenRecv ==
  /\ ~panicked
  /\ kind = "then"
  /\ bpc = "await"
  /\ handle[1] # <<>>
  /\ LET r == Received(handle[1]) IN
       /\ wres' = [wres EXCEPT ![1] = r]
       /\ mapCalls' = IF r.Error # "nil" THEN mapCalls ELSE mapCalls + 1
       /\ handle' = Deliver([handle EXCEPT ![1] = Tail(@)], 0, ThenResult(r))
  /\ sent' = [sent EXCEPT ![0] = @ + 1]
  /\ closes' = Closed(closes, 0)
  /\ tpc' = [tpc EXCEPT ![0] = "done"]
  /\ bpc' = "done"
  /\ doneAtSend' = Done("scope")
  /\ UNCHANGED <<conf, ctx, callerVars, started, wpc, allCh,
                 allClosed, values, cnt, berr, anyRes, winner, nrecv, firstRecv,
                 panicked, first>>

----------------------------------------------------------------------------
(* AllOf, lines 82-120 *)

\* Lines 84-106 and 108: the child context, the channel, one worker goroutine
\* per input future, the values slice.
AllOfStart ==
  /\ ~panicked
  /\ kind = "allof"
  /\ bpc = "start"
  /\ ctx' = WithCancel(ctx, "child")
  /\ allCh' = <<>>
  /\ wpc' = [i \in Inputs |-> IF i <= n THEN "async" ELSE "idle"]
  /\ values' = [i \in 1..n |-> 0]
  /\ cnt' = 0
  /\ bpc' = "loop"
  /\ UNCHANGED <<conf, callerVars, tpc, handle, closes, sent, started, wres,
                 allClosed, berr, anyRes, winner, mapCalls, nrecv, firstRecv, panicked,
                 first, doneAtSend>>

\* Line 95: rCh, _ := f.Async(ctx)
AllOfWorkerAsync(i) ==
  /\ ~panicked
  /\ kind = "allof"
  /\ wpc[i] = "async"
  /\ ctx' = AsyncCtx(i)
  /\ tpc' = AsyncTpc(i)
  /\ wpc' = [wpc EXCEPT ![i] = "select"]
  /\ UNCHANGED <<conf, callerVars, handle, closes, sent, started, wres,
                 bodyVars, panicked, first, doneAtSend>>

\* Line 97: case result := <-rCh
AllOfWorkerRecv(i) ==
  /\ ~panicked
  /\ kind = "allof"
  /\ wpc[i] = "select"
  /\ handle[i] # <<>>
  /\ wres' = [wres EXCEPT ![i] = Received(handle[i])]
  /\ handle' = [handle EXCEPT ![i] = Tail(@)]
  /\ wpc' = [wpc EXCEPT ![i] = "send"]
  /\ UNCHANGED <<conf, ctx, callerVars, tpc, closes, sent, started, bodyVars,
                 panicked, first, doneAtSend>>

\* The struct sent at lines 98-101.
Tagged(i, r) == [index |-> i, result |-> r]

\* Lines 98-101: resultCh <- struct{index, result}; a send on a closed
\* channel panics.
AllOfWorkerSend(i) ==
  /\ ~panicked
  /\ kind = "allof"
  /\ wpc[i] = "send"
  /\ IF allClosed
       THEN panicked' = TRUE /\ allCh' = allCh
       ELSE panicked' = FALSE /\ allCh' = Append(allCh, Tagged(i, wres[i]))
  /\ wpc' = [wpc EXCEPT ![i] = "done"]
  /\ UNCHANGED <<conf, ctx, callerVars, tpc, handle, closes, sent, started,
                 wres, bpc, allClosed, values, cnt, berr, anyRes, winner,
                 mapCalls, nrecv, firstRecv, first, doneAtSend>>

\* Lines 102-103: case <-ctx.Done(): return
AllOfWorkerCtxDone(i) ==
  /\ ~panicked
  /\ kind = "allof"
  /\ wpc[i] = "select"
  /\ Done("child")
  /\ wpc' = [wpc EXCEPT ![i] = "done"]
  /\ UNCHANGED <<conf, ctx, callerVars, tpc, handle, closes, sent, started,
                 wres, bodyVars, panicked, first, doneAtSend>>

\* The error check left out.
IsFailureNever(r) == FALSE

\* Line 111: the loop leaves on this Result
IsFailure(r) == r.Error # "nil"

\* The value stored in arrival order.
StoreByArrival(vs, c, r) == [vs EXCEPT ![c + 1] = r.result.Value]

\* Line 115: values[r.index] = r.result.Value
Store(vs, c, r) == [vs EXCEPT ![r.index] = r.result.Value]

\* A loop that tests its condition after the first turn.
LoopRunsAtLeastOnce == cnt < n \/ (cnt = 0 /\ nrecv = 0 /\ bpc = "loop")

\* Line 109: the condition of `for count < len(futures)`.
LoopRuns == cnt < n

\* Lines 109-116: one turn of the loop: r := <-resultCh, then either
\* cancel() and leave with the failure, or values[r.index] = r.result.Value.
AllOfRecv ==
  /\ ~panicked
  /\ kind = "allof"
  /\ bpc = "loop"
  /\ LoopRuns
  /\ allCh # <<>>
  /\ LET r == Head(allCh) IN
       /\ nrecv' = nrecv + 1
       /\ firstRecv' = IF nrecv = 0 THEN r.index ELSE firstRecv
       /\ IF IsFailure(r.result)
            THEN /\ ctx' = Cancel(ctx, "child")
                 /\ berr' = r.result.Error
                 /\ bpc' = "ret"
                 /\ UNCHANGED <<values, cnt>>
            ELSE /\ values' = Store(values, cnt, r)
                 /\ cnt' = cnt + 1
                 /\ UNCHANGED <<ctx, berr, bpc>>
  /\ allCh' = Tail(allCh)
  /\ UNCHANGED <<conf, callerVars, tpc, handle, closes, sent, started,
                 workerVars, allClosed, anyRes, winner, mapCalls, panicked,
                 first, doneAtSend>>

\* Lines 113 and 118: what the computation of AllOf returns.
AllOfResult == IF bpc = "ret" THEN Result(<<>>, berr) ELSE Result(values, "nil")

\* Lines 113 / 118 with the deferred close(resultCh) (91) and cancel() (85),
\* and the send of line 55 by task 0.
AllOfReturn ==
  /\ ~panicked
  /\ kind = "allof"
  /\ \/ bpc = "ret"
     \/ bpc = "loop" /\ ~LoopRuns
  /\ allClosed' = TRUE
  /\ ctx' = Cancel(ctx, "child")
  /\ handle' = Deliver(handle, 0, AllOfResult)
  /\ sent' = [sent EXCEPT ![0] = @ + 1]
  /\ closes' = Closed(closes, 0)
  /\ tpc' = [tpc EXCEPT ![0] = "done"]
  /\ bpc' = "done"
  /\ doneAtSend' = Done("scope")
  /\ UNCHANGED <<conf, callerVars, started, workerVars, allCh,
                 values, cnt, berr, anyRes, winner, mapCalls, nrecv, firstRecv,
                 panicked, first>>

----------------------------------------------------------------------------
(* AnyOf, lines 124-146 *)

\* AnyOf answering at once when it is given no futures.
AnyOfStartEmptyReturns ==
  /\ ~panicked
  /\ kind = "anyof"
  /\ bpc = "start"
  /\ ctx' = WithCancel(ctx, "child")
  /\ wpc' = [i \in Inputs |-> IF i <= n THEN "async" ELSE "idle"]
  /\ bpc' = IF n = 0 THEN "ret" ELSE "recv"
  /\ UNCHANGED <<conf, callerVars, tpc, handle, closes, sent, started, wres,
                 allCh, allClosed, values, cnt, berr, anyRes, winner,
                 mapCalls, nrecv, firstRecv, panicked, first, doneAtSend>>

\* Lines 126-141: the child context, the unbuffered channel, the workers.
AnyOfStart ==
  /\ ~panicked
  /\ kind = "anyof"
  /\ bpc = "start"
  /\ ctx' = WithCancel(ctx, "child")
  /\ wpc' = [i \in Inputs |-> IF i <= n THEN "async" ELSE "idle"]
  /\ bpc' = "recv"
  /\ UNCHANGED <<conf, callerVars, tpc, handle, closes, sent, started, wres,
                 allCh, allClosed, values, cnt, berr, anyRes, winner,
                 mapCalls, nrecv, firstRecv, panicked, first, doneAtSend>>

\* Line 133: rCh, _ := f.Async(ctx)
AnyOfWorkerAsync(i) ==
  /\ ~panicked
  /\ kind = "anyof"
  /\ wpc[i] = "async"
  /\ ctx' = AsyncCtx(i)
  /\ tpc' = AsyncTpc(i)
  /\ wpc' = [wpc EXCEPT ![i] = "recv"]
  /\ UNCHANGED <<conf, callerVars, handle, closes, sent, started, wres,
                 bodyVars, panicked, first, doneAtSend>>

\* The worker cancelling the child scope before its send instead of after.
AnyOfWorkerRecvCancels(i) ==
  /\ ~panicked
  /\ kind = "anyof"
  /\ wpc[i] = "recv"
  /\ handle[i] # <<>>
  /\ wres' = [wres EXCEPT ![i] = Received(handle[i])]
  /\ handle' = [handle EXCEPT ![i] = Tail(@)]
  /\ wpc' = [wpc EXCEPT ![i] = "select"]
  /\ ctx' = Cancel(ctx, "child")
  /\ UNCHANGED <<conf, callerVars, tpc, closes, sent, started, bodyVars,
                 panicked, first, doneAtSend>>

\* Line 135: the operand <-rCh of the send case is evaluated on entering the
\* select, before any case is chosen.
AnyOfWorkerRecv(i) ==
  /\ ~panicked
  /\ kind = "anyof"
  /\ wpc[i] = "recv"
  /\ handle[i] # <<>>
  /\ wres' = [wres EXCEPT ![i] = Received(handle[i])]
  /\ handle' = [handle EXCEPT ![i] = Tail(@)]
  /\ wpc' = [wpc EXCEPT ![i] = "select"]
  /\ UNCHANGED <<conf, ctx, callerVars, tpc, closes, sent, started, bodyVars,
                 panicked, first, doneAtSend>>

\* Lines 135 and 143: the send on the unbuffered channel meets the receive
\* result := <-resultCh of the computation.
AnyOfWorkerSend(i) ==
  /\ ~panicked
  /\ kind = "anyof"
  /\ wpc[i] = "select"
  /\ bpc = "recv"
  /\ anyRes' = wres[i]
  /\ winner' = i
  /\ bpc' = "ret"
  /\ wpc' = [wpc EXCEPT ![i] = "cancel"]
  /\ UNCHANGED <<conf, ctx, callerVars, tpc, handle, closes, sent, started,
                 wres, allCh, allClosed, values, cnt, berr, mapCalls, nrecv, firstRecv,
                 panicked, first, doneAtSend>>

\* Line 136: cancel() by the worker whose send succeeded.
AnyOfWorkerCancel(i) ==
  /\ ~panicked
  /\ kind = "anyof"
  /\ wpc[i] = "cancel"
  /\ ctx' = Cancel(ctx, "child")
  /\ wpc' = [wpc EXCEPT ![i] = "done"]
  /\ UNCHANGED <<conf, callerVars, tpc, handle, closes, sent, started, wres,
                 bodyVars, panicked, first, doneAtSend>>

\* The select of the worker without its ctx.Done() case.
AnyOfWorkerOnlySends(i) ==
  /\ ~panicked
  /\ kind = "anyof"
  /\ wpc[i] = "select"
  /\ FALSE
  /\ UNCHANGED vars

\* Lines 137-138: case <-ctx.Done(): return
AnyOfWorkerCtxDone(i) ==
  /\ ~panicked
  /\ kind = "anyof"
  /\ wpc[i] = "select"
  /\ Done("child")
  /\ wpc' = [wpc EXCEPT ![i] = "done"]
  /\ UNCHANGED <<conf, ctx, callerVars, tpc, handle, closes, sent, started,
                 wres, bodyVars, panicked, first, doneAtSend>>

\* The error of the winning Result dropped.
AnyOfResultNoError == Result(anyRes.Value, "nil")

\* Line 144: what the computation of AnyOf returns.
AnyOfResult == Result(anyRes.Value, anyRes.Error)

\* Line 144 with the deferred cancel() (127), and the send of line 55 by
\* task 0.
AnyOfReturn ==
  /\ ~panicked
  /\ kind = "anyof"
  /\ bpc = "ret"
  /\ ctx' = Cancel(ctx, "child")
  /\ handle' = Deliver(handle, 0, AnyOfResult)
  /\ sent' = [sent EXCEPT ![0] = @ + 1]
  /\ closes' = Closed(closes, 0)
  /\ tpc' = [tpc EXCEPT ![0] = "done"]
  /\ bpc' = "done"
  /\ doneAtSend' = Done("scope")
  /\ UNCHANGED <<conf, callerVars, started, workerVars, allCh,
                 allClosed, values, cnt, berr, anyRes, winner, mapCalls,
                 nrecv, firstRecv, panicked, first>>

----------------------------------------------------------------------------
Next ==
  \/ CancelScope
  \/ CancelCScope
  \/ Call
  \/ AwaitRecv
  \/ AwaitWithTimeoutCtxDone
  \/ AwaitWithTimeoutRecv
  \/ AwaitWithTimeoutTimer
  \/ AsyncRecv
  \/ AsyncCancel
  \/ \E k \in Inputs : AsyncAgain(k)
  \/ ThenAwait
  \/ ThenRecv
  \/ AllOfStart
  \/ AllOfRecv
  \/ AllOfReturn
  \/ AnyOfStart
  \/ AnyOfReturn
  \/ \E i \in Inputs : AllOfWorkerAsync(i)
  \/ \E i \in Inputs : AllOfWorkerRecv(i)
  \/ \E i \in Inputs : AllOfWorkerSend(i)
  \/ \E i \in Inputs : AllOfWorkerCtxDone(i)
  \/ \E i \in Inputs : AnyOfWorkerAsync(i)
  \/ \E i \in Inputs : AnyOfWorkerRecv(i)
  \/ \E i \in Inputs : AnyOfWorkerSend(i)
  \/ \E i \in Inputs : AnyOfWorkerCancel(i)
  \/ \E i \in Inputs : AnyOfWorkerCtxDone(i)
  \/ \E t \in Tasks : TaskCancelled(t)
  \/ \E t \in Tasks : TaskRun(t)
  \/ \E t \in Tasks : TaskFn(t)

Spec == Init /\ [][Next]_vars

----------------------------------------------------------------------------
(* Properties *)

\* No scope of the caller's has been cancelled (cancellation is permanent,
\* so none ever was).
NeverCancelled == ~Done("scope") /\ ~Done(CScope)

\* The caller waited with Await or AwaitWithTimeout and got a Result that is
\* not the timer's.
Awaited == callerPc = "done" /\ mode # "Async" /\ ~timedOut

\* C1: Await returns the scope's cancellation failure, with a default value,
\* whenever the scope was cancelled before the handle delivered, also when
\* the computation was already running.
C1_AwaitReturnsCancellation ==
  (mode = "Await" /\ callerPc = "done" /\ doneAtSend)
    => ret = Result(Zero(0), "Canceled")

\* C2: on a scope that is never cancelled, New(f).Await(scope) returns
\* (v, nil) if f returns (v, nil), and a Result whose Error is err if f
\* returns (_, err).
C2_AwaitReturnsOutcome ==
  (kind = "plain" /\ mode = "Await" /\ callerPc = "done" /\ ~Done("scope"))
    => /\ ret.Error = Fn(0).err
       /\ Fn(0).err = "nil" => ret.Value = Fn(0).value

C2_Witness ==
  /\ kind = "plain" /\ mode = "Await" /\ callerPc = "done" /\ ~Done("scope")
  /\ 0 \in fails
  /\ ret.Error = ErrOf(0)

\* C3: the goroutine of every Async delivers at most one Result, closes the
\* handle at most once and only with its one Result delivered, ends with
\* exactly one delivery and one close, and its send never finds the
\* one-place buffer full.
C3_OneShotHandle ==
  \A t \in Tasks :
    /\ sent[t] <= 1
    /\ closes[t] <= 1
    /\ closes[t] = 1 => sent[t] = 1
    /\ Len(handle[t]) <= 1
    /\ tpc[t] = "done" => (sent[t] = 1 /\ closes[t] = 1)

\* The handle was delivered and closed under cancellation with nobody
\* reading it.
C3_Witness ==
  /\ mode = "Async" /\ callerPc = "wait"
  /\ Done("top")
  /\ tpc[0] = "done" /\ closes[0] = 1 /\ Len(handle[0]) = 1
  /\ \E i \in 1..n : tpc[i] = "done" /\ Len(handle[i]) = 1 /\ wpc[i] = "done"

\* C4: with the scope already cancelled when Async, Await or
\* AwaitWithTimeout dispatches, the computation is never run and the Result
\* delivered or returned is the default value with the scope's cancellation
\* reason.
C4_CancelledAtDispatch ==
  doneAtCall =>
    /\ started[0] = 0
    /\ handle[0] # <<>> => Head(handle[0]) = Result(Zero(0), "Canceled")
    /\ callerPc = "done" => ret = Result(Zero(0), "Canceled")

\* C5: once AwaitWithTimeout has taken the timer branch, the derived scope
\* is cancelled and the Result returned is, and stays, the default value
\* with the deadline-exceeded failure, whatever is delivered later.
C5_TimeoutResult ==
  timedOut =>
    /\ callerPc = "done"
    /\ ret = Result(Zero(0), "DeadlineExceeded")
    /\ Done("top")

\* The timer fired with the scope not cancelled, the computation of a
\* composition in flight and no Result delivered.
C5_Witness ==
  /\ timedOut /\ ~Done("scope")
  /\ kind = "allof" /\ tpc[0] = "run" /\ sent[0] = 0

\* C6: AllOf over futures that all succeed, no scope ever cancelled: the
\* awaited Result has a nil error and len(futures) values, element i the
\* value of input future i.
C6_AllOfOrdered ==
  (kind = "allof" /\ Awaited /\ fails = {} /\ NeverCancelled)
    => /\ ret.Error = "nil"
       /\ Len(ret.Value) = n
       /\ \A i \in 1..n : ret.Value[i] = Fn(i).value

\* The last input completed first and was collected first.
C6_Witness ==
  /\ kind = "allof" /\ Awaited /\ fails = {} /\ NeverCancelled
  /\ n = MaxFutures /\ first = n /\ firstRecv = n
  /\ ret.Error = "nil"

\* C7: AllOf with exactly one failing input, no scope ever cancelled: the
\* awaited Result is that failure with a nil value; the loop receives
\* nothing more once it has received the failure; and the child scope is
\* cancelled from then on.
C7_AllOfFailure ==
  (kind = "allof" /\ Cardinality(fails) = 1 /\ NeverCancelled)
    => /\ Awaited => \E i \in fails : ret = Result(<<>>, ErrOf(i))
       /\ nrecv = cnt + (IF berr = "nil" THEN 0 ELSE 1)
       /\ bpc = "done" => berr # "nil"
       /\ berr # "nil" => /\ bpc \in {"ret", "done"}
                          /\ berr \in {ErrOf(i) : i \in fails}
                          /\ Done("child")

\* AllOf has returned the failure while a sibling's computation is still
\* running.
C7_Witness ==
  /\ kind = "allof" /\ Cardinality(fails) = 1 /\ NeverCancelled
  /\ Awaited /\ ret.Error # "nil"
  /\ \E i \in 1..n : tpc[i] = "run"

\* C8: once the scope given to AllOf is cancelled, the collecting loop is
\* never left waiting for Results that no worker will send: every worker
\* gone, the channel empty, results still missing.
C8_AllOfNeverStuck ==
  ~ /\ kind = "allof" /\ bpc = "loop" /\ cnt < n /\ n >= 1
    /\ Done(CScope)
    /\ allCh = <<>>
    /\ \A i \in 1..n : wpc[i] = "done"

C10_AnyOfNeverStuck ==
  ~ /\ kind = "anyof" /\ bpc = "recv" /\ n >= 1
    /\ Done(CScope)
    /\ \A i \in 1..n : wpc[i] = "done"

\* C11: a future built by Then, once its computation has returned: if the
\* source's Result carried a failure, mapFn was never called and the Result
\* is that failure with a default value; otherwise mapFn was called exactly
\* once, on the source's value, and the Result is mapFn's own.  The Result is
\* the one delivered on the handle, which Await returns.
C11_ThenSequencing ==
  (kind = "then") =>
    /\ bpc # "done" => mapCalls = 0
    /\ bpc = "done" =>
         LET src == wres[1]
             exp == IF src.Error # "nil" THEN Result(0, src.Error)
                    ELSE MapFn(src.Value)
         IN /\ mapCalls = (IF src.Error # "nil" THEN 0 ELSE 1)
            /\ handle[0] # <<>> => Head(handle[0]) = exp
            /\ (callerPc = "done" /\ mode # "AwaitWithTimeout") => ret = exp

\* The source failed with a non-default value and the wait returned.
C11_Witness ==
  /\ kind = "then" /\ Awaited /\ NeverCancelled
  /\ 1 \in fails /\ wres[1].Value # 0
  /\ ret = Result(0, ErrOf(1)) /\ mapCalls = 0

\* C12 as claimed: AwaitWithTimeout always eventually returns a Result: as
\* long as its select is waiting, the timer branch remains able to fire and
\* return, whatever the future and whether or not the computation completes.
C12_TimeoutAlwaysReturns ==
  (mode = "AwaitWithTimeout" /\ callerPc = "wait") =>
    ENABLED AwaitWithTimeoutTimer

\* C13 as claimed: once Await or AwaitWithTimeout has returned, the scope
\* Async derived for that dispatch is cancelled, and once the computation of
\* AllOf or AnyOf has returned, its child scope is cancelled.
C13_DerivedScopesReleased ==
  /\ (callerPc = "done" /\ mode # "Async") => Done("top")
  /\ (kind \in {"allof", "anyof"} /\ bpc = "done") => Done("child")

\* C14: AllOf over zero futures never receives from its channel, can return
\* as soon as its loop is reached, and delivers an empty sequence with a nil
\* error, which is what a wait on a scope that is never cancelled returns.
C14_AllOfZeroFutures ==
  (kind = "allof" /\ n = 0) =>
    /\ nrecv = 0
    /\ bpc = "loop" => ENABLED AllOfReturn
    /\ bpc # "ret"
    /\ handle[0] # <<>> =>
         (Head(handle[0]) = Result(<<>>, "nil") \/ started[0] = 0)
    /\ (Awaited /\ NeverCancelled) => ret = Result(<<>>, "nil")

C14_Witness ==
  /\ kind = "allof" /\ n = 0
  /\ mode = "Await" /\ Awaited /\ NeverCancelled
  /\ nrecv = 0
  /\ ret = Result(<<>>, "nil")

\* C15: a future made by New is not memoized.  Every dispatch on it whose
\* derived scope is not cancelled starts its own run of the computation, so
\* the number of runs started equals the number of dispatches past their
\* check; each handle carries at most one Result, and that Result is the one
\* of its own run (or its own cancellation), never another dispatch's.
C15_NotMemoized ==
  (kind = "plain") =>
    /\ \A t \in Tasks :
         /\ started[t] <= 1
         /\ (tpc[t] \in {"run", "done"} /\ ~Done(CtxOf(t))) => started[t] = 1
         /\ Len(handle[t]) <= 1
         /\ handle[t] # <<>> =>
              Head(handle[t]) = (IF started[t] = 1 THEN FnResult(t)
                                 ELSE Result(0, "Canceled"))
    /\ (~Done("scope") /\ ~Done("top")) =>
         Cardinality({t \in Tasks : started[t] = 1})
           = Cardinality({t \in Tasks : tpc[t] \in {"run", "done"}})
    /\ (callerPc = "done" /\ started[0] = 1 /\ ~timedOut /\ ~Done("scope"))
         => ret = FnResult(0)

C15_Witness ==
  /\ kind = "plain" /\ ~Done("scope") /\ ~Done("top")
  /\ \A t \in Tasks : tpc[t] = "done" /\ started[t] = 1
  /\ \A k \in Inputs : handle[k] = <<FnResult(k)>>
  /\ callerPc = "done" /\ ret = FnResult(0)

\* C16 as claimed: no AllOf worker ever sends on the index-tagged delivery
\* channel after AllOf's deferred close: the send-on-closed-channel panic is
\* never reached.
C16_NoSendOnClosed ==
  ~panicked /\ \A i \in Inputs : ~(kind = "allof" /\ wpc[i] = "send" /\ allClosed)

\* C17 as claimed: once AwaitWithTimeout on a future built by Then has
\* returned the deadline-exceeded failure, no step invokes mapFn any more.
C17_TimeoutStopsThen ==
  [][(kind = "then" /\ timedOut /\ ret = TimeoutResult) =>
       mapCalls' = mapCalls]_vars

\* C18: AnyOf over zero futures never leaves its receive from the race
\* channel: nothing can send on it and its return is never enabled, so an
\* Await whose dispatch ran the computation never returns, and on a scope
\* that is never cancelled Await never returns at all.
C18_AnyOfZeroBlocks ==
  (kind = "anyof" /\ n = 0) =>
    /\ bpc \in {"idle", "start", "recv"}
    /\ winner = 0
    /\ bpc = "recv" =>
         /\ ~ENABLED AnyOfReturn
         /\ \A i \in Inputs : ~ENABLED AnyOfWorkerSend(i)
    /\ (mode = "Await" /\ started[0] = 1) => callerPc # "done"
    /\ (mode = "Await" /\ ~Done("scope")) => callerPc # "done"

C18_Witness ==
  /\ kind = "anyof" /\ n = 0 /\ mode = "Await"
  /\ NeverCancelled
  /\ bpc = "recv" /\ tpc[0] = "run"
  /\ callerPc = "wait" /\ handle[0] = <<>>

\* C19: on scopes that are never cancelled, what AnyOf returns was produced
\* by running an input computation.  A cancellation Result made for a future
\* that was dispatched after the child scope was cancelled exists only once
\* the race is decided, and the worker holding it is never the winner.
C19_NoManufacturedCancellation ==
  (kind = "anyof" /\ NeverCancelled) =>
    /\ \A i \in 1..n :
         (tpc[i] = "done" /\ started[i] = 0) =>
           /\ winner \notin {0, i}
           /\ wres[i].Error \in {"none", "Canceled"}
    /\ bpc \in {"ret", "done"} =>
         /\ started[winner] = 1
         /\ anyRes = FnResult(winner)
         /\ anyRes.Error # "Canceled"
    /\ (bpc = "done" /\ handle[0] # <<>>) => Head(handle[0]) = FnResult(winner)

\* The loser was dispatched on the cancelled child scope and its worker
\* holds the cancellation Result; AnyOf returned the winner's.
C19_Witness ==
  /\ kind = "anyof" /\ NeverCancelled /\ n = 2
  /\ bpc = "done" /\ winner = 1
  /\ tpc[2] = "done" /\ started[2] = 0
  /\ wres[2] = Result(0, "Canceled") /\ wpc[2] = "done"
  /\ Awaited /\ ret = FnResult(1)

----------------------------------------------------------------------------
(* Scheduling *)

\* The Go scheduler runs every goroutine that can take a step: the workers of
\* AnyOf and the goroutines Async started for their futures, whose
\* computations return once started.
Fairness ==
  \A i \in Inputs :
    /\ WF_vars(AnyOfWorkerAsync(i))
    /\ WF_vars(AnyOfWorkerRecv(i))
    /\ WF_vars(AnyOfWorkerCancel(i))
    /\ WF_vars(AnyOfWorkerCtxDone(i))
    /\ WF_vars(TaskCancelled(i))
    /\ WF_vars(TaskRun(i))
    /\ WF_vars(TaskFn(i))

\* AnyOf alone: AnyOf(ctx, fs...).Await(scope) with its caller, workers and
\* tasks.  The wait operation acts on the workers through the scope only.
AnyOfInit == Init /\ kind = "anyof" /\ mode = "Await"

AnyOfNext ==
  \/ CancelScope
  \/ CancelCScope
  \/ Call
  \/ AwaitRecv
  \/ AnyOfStart
  \/ AnyOfReturn
  \/ \E i \in Inputs : AnyOfWorkerAsync(i)
  \/ \E i \in Inputs : AnyOfWorkerRecv(i)
  \/ \E i \in Inputs : AnyOfWorkerSend(i)
  \/ \E i \in Inputs : AnyOfWorkerCancel(i)
  \/ \E i \in Inputs : AnyOfWorkerCtxDone(i)
  \/ \E t \in Tasks : TaskCancelled(t)
  \/ \E t \in Tasks : TaskRun(t)
  \/ \E t \in Tasks : TaskFn(t)

FairAnyOfSpec == AnyOfInit /\ [][AnyOfNext]_vars /\ Fairness

\* C20: once a send on the race channel has succeeded no further send
\* succeeds, and after the computation of AnyOf has returned every worker it
\* spawned terminates.
C20_WorkersTerminate ==
  /\ [][winner # 0 => ~(\E i \in Inputs : AnyOfWorkerSend(i))]_vars
  /\ (kind = "anyof" /\ bpc = "done") ~> (\A i \in 1..n : wpc[i] = "done")

\* AnyOf has returned while a losing worker, holding its Result, is still in
\* its select.
C20_Witness ==
  /\ kind = "anyof" /\ bpc = "done" /\ n = 2
  /\ winner = 1
  /\ wpc[2] = "select" /\ wres[2] = FnResult(2)

====
